---- MODULE Spec2Model ----
(***************************************************************************)
(* Model of apps/server/src/utils/llm.py: the AzureOpenAIClient that       *)
(* resolves its configuration from Azure Key Vault and the process         *)
(* environment (_load_config_from_vault), lazily builds and memoizes the   *)
(* AzureOpenAI connection (_get_client) and generates content              *)
(* (generate_content).                                                     *)
(*                                                                         *)
(* Python values are modelled as strings; None is the string "None".       *)
(* A missing memo (self._config is None, self._client is None) is a        *)
(* record of its own shape, so that it can be compared with a bundle.      *)
(***************************************************************************)
EXTENDS Integers, Sequences, FiniteSets, TLC

VARIABLES
    env,            \* config.env: the process environment, variable -> value or None
    vaultUp,        \* DefaultAzureCredential() / SecretClient(...) succeed
    secrets,        \* Key Vault content: secret name -> value, or FetchError
    key_vault_url,  \* self.key_vault_url
    _config,        \* self._config
    _client,        \* self._client
    sessions,       \* SecretClient constructions attempted by this instance
    fetches,        \* get_secret calls made by this instance, in order
    built,          \* AzureOpenAI constructions made by this instance
    last,           \* the last call on the instance and what its caller saw
    obtained,       \* per logical task: the bundle and the connection it holds
    table,          \* the capability table: id -> row
    next_id,        \* the id the table gives to the next created row
    repoLast,       \* the last repository call and what it returned
    text,           \* count_tokens: the text argument
    tokenizer,      \* count_tokens: what tiktoken does with it (a count, or it fails)
    counted         \* count_tokens: what the call returned

clientVars == <<env, vaultUp, secrets, key_vault_url, _config, _client,
                sessions, fetches, built, last>>
taskVars == <<obtained>>
repoVars == <<table, next_id, repoLast>>
tokenVars == <<text, tokenizer, counted>>

vars == <<env, vaultUp, secrets, key_vault_url, _config, _client,
          sessions, fetches, built, last, obtained, table, next_id, repoLast,
          text, tokenizer, counted>>

----------------------------------------------------------------------------
(* Bounds of the model *)

MaxSessions == 2
MaxBuilt == 2
NumTasks == 2
MaxCapabilities == 2
MaxTextLen == 5

----------------------------------------------------------------------------
(* Python values *)

None == "None"
NoConfig == [none |-> "config"]
NoClient == [none |-> "client"]
NoResult == [none |-> "result"]

Falsy(v) == v = None \/ v = ""

PyOr(a, b) == IF Falsy(a) THEN b ELSE a

DefaultKeyVaultUrl == "https://KV-fs-to-autogen.vault.azure.net/"
DefaultApiVersion == "2024-02-01"

----------------------------------------------------------------------------
(* The environment and the secret store *)

EnvDomain ==
    [KEY_VAULT_URL            : {None, "", "https://kv.example/"},
     AZURE_OPENAI_API_KEY     : {None, "", "k"},
     AZURE_OPENAI_ENDPOINT    : {None, "https://x"},
     AZURE_OPENAI_API_VERSION : {None, "", "2023-05-15"},
     AZURE_OPENAI_DEPLOYMENT  : {None, "", "gpt-4"}]

FetchError == "FetchError"

SecretDomain ==
    [AzureLLMKey           : {FetchError, "", "vault-key"},
     AzureOpenAiBase       : {FetchError, "https://vault-base"},
     AzureOpenAiVersion    : {FetchError, "", "2024-06-01"},
     AzureOpenAiDeployment : {FetchError, "", "gpt-4o"}]

SecretOrder ==
    <<"AzureLLMKey", "AzureOpenAiBase", "AzureOpenAiVersion", "AzureOpenAiDeployment">>

EnvGet(name) == env[name]

EnvGetDefault(name, default) == IF env[name] = None THEN default ELSE env[name]

----------------------------------------------------------------------------
(* _load_config_from_vault *)

EnvOnlyConfig ==
    [api_key       |-> EnvGet("AZURE_OPENAI_API_KEY"),
     api_base      |-> EnvGet("AZURE_OPENAI_ENDPOINT"),
     model_version |-> EnvGetDefault("AZURE_OPENAI_API_VERSION", DefaultApiVersion),
     deployment    |-> EnvGet("AZURE_OPENAI_DEPLOYMENT")]

\* the fallback without the default of AZURE_OPENAI_API_VERSION
FallbackConfig_NoDefault ==
    [api_key       |-> EnvGet("AZURE_OPENAI_API_KEY"),
     api_base      |-> EnvGet("AZURE_OPENAI_ENDPOINT"),
     model_version |-> EnvGet("AZURE_OPENAI_API_VERSION"),
     deployment    |-> EnvGet("AZURE_OPENAI_DEPLOYMENT")]

FallbackConfig ==
    [api_key       |-> EnvGet("AZURE_OPENAI_API_KEY"),
     api_base      |-> EnvGet("AZURE_OPENAI_ENDPOINT"),
     model_version |-> EnvGetDefault("AZURE_OPENAI_API_VERSION", DefaultApiVersion),
     deployment    |-> EnvGet("AZURE_OPENAI_DEPLOYMENT")]

\* try: client.get_secret(name).value  except Exception: None
FetchOrNone(name) == IF secrets[name] = FetchError THEN None ELSE secrets[name]

FetchedConfig ==
    [api_key       |-> FetchOrNone("AzureLLMKey"),
     api_base      |-> FetchOrNone("AzureOpenAiBase"),
     model_version |-> FetchOrNone("AzureOpenAiVersion"),
     deployment    |-> FetchOrNone("AzureOpenAiDeployment")]

\* the back-fill with the two sources swapped: the environment wins
BackFill_EnvFirst(cfg) ==
    [api_key       |-> PyOr(EnvGet("AZURE_OPENAI_API_KEY"), cfg.api_key),
     api_base      |-> PyOr(EnvGet("AZURE_OPENAI_ENDPOINT"), cfg.api_base),
     model_version |-> PyOr(EnvGet("AZURE_OPENAI_API_VERSION"),
                            PyOr(cfg.model_version, DefaultApiVersion)),
     deployment    |-> PyOr(EnvGet("AZURE_OPENAI_DEPLOYMENT"), cfg.deployment)]

\* "Fill any missing values from environment variables"
BackFill(cfg) ==
    [api_key       |-> PyOr(cfg.api_key, EnvGet("AZURE_OPENAI_API_KEY")),
     api_base      |-> PyOr(cfg.api_base, EnvGet("AZURE_OPENAI_ENDPOINT")),
     model_version |-> PyOr(cfg.model_version,
                            EnvGetDefault("AZURE_OPENAI_API_VERSION", DefaultApiVersion)),
     deployment    |-> PyOr(cfg.deployment, EnvGet("AZURE_OPENAI_DEPLOYMENT"))]

\* What one call of _load_config_from_vault does: the bundle it returns (cfg),
\* the error it raises (raised), whether it filled the memo (loaded), the
\* sessions it opened and the secrets it fetched.
LoadOutcome(cfg, raised, loaded, opened, fetched) ==
    [cfg |-> cfg, raised |-> raised, loaded |-> loaded,
     opened |-> opened, fetched |-> fetched]

\* the memo test that never finds the memo
IsResolved_Never(c) == FALSE

IsResolved(c) == c # NoConfig

\* the session failure left uncaught
OnVaultFailure_Propagate(e) == LoadOutcome(NoConfig, e, FALSE, 1, <<>>)

\* except Exception as e: ... self._config = {environment values}
OnVaultFailure(e) == LoadOutcome(FallbackConfig, None, TRUE, 1, <<>>)

\* the resolution without the per-secret handlers: the first failing fetch
\* ends the fetching and the outer handler takes over
LoadConfigFromVault_AbortOnFetchFailure(c) ==
    IF IsResolved(c)
    THEN LoadOutcome(c, None, FALSE, 0, <<>>)
    ELSE IF ~vaultUp
         THEN OnVaultFailure("SessionError")
         ELSE IF \A i \in 1..Len(SecretOrder) : secrets[SecretOrder[i]] # FetchError
              THEN LoadOutcome(BackFill(FetchedConfig), None, TRUE, 1, SecretOrder)
              ELSE LET first == CHOOSE i \in 1..Len(SecretOrder) :
                                  /\ secrets[SecretOrder[i]] = FetchError
                                  /\ \A j \in 1..(i - 1) : secrets[SecretOrder[j]] # FetchError
                   IN LoadOutcome(FallbackConfig, None, TRUE, 1, SubSeq(SecretOrder, 1, first))

LoadConfigFromVault(c) ==
    IF IsResolved(c)
    THEN LoadOutcome(c, None, FALSE, 0, <<>>)
    ELSE LET kv_url == PyOr(EnvGet("KEY_VAULT_URL"), key_vault_url) IN
         IF Falsy(kv_url)
         THEN LoadOutcome(EnvOnlyConfig, None, TRUE, 0, <<>>)
         ELSE IF vaultUp
              THEN LoadOutcome(BackFill(FetchedConfig), None, TRUE, 1, SecretOrder)
              ELSE OnVaultFailure("SessionError")

\* the bundle stored only when it is complete
ConfigAfter_OnlyComplete(c, r) ==
    IF r.loaded /\ r.raised = None
       /\ ~Falsy(r.cfg.api_key) /\ ~Falsy(r.cfg.api_base) /\ ~Falsy(r.cfg.deployment)
    THEN r.cfg
    ELSE c

\* the bundle returned but never stored in self._config
ConfigAfter_NotStored(c, r) == c

\* self._config after the call
ConfigAfter(c, r) == IF r.loaded /\ r.raised = None THEN r.cfg ELSE c

----------------------------------------------------------------------------
(* _get_client *)

RequiredKeys == <<"api_key", "api_base", "deployment">>

\* the validation that only looks for None, and the one that reports only
\* the first missing key
Missing_NoneOnly(config) == SelectSeq(RequiredKeys, LAMBDA k : config[k] = None)

Missing_FirstOnly(config) ==
    LET m == SelectSeq(RequiredKeys, LAMBDA k : Falsy(config[k]))
    IN IF m = <<>> THEN m ELSE <<Head(m)>>

Missing(config) == SelectSeq(RequiredKeys, LAMBDA k : Falsy(config[k]))

AzureOpenAI(config, n) ==
    [id |-> n,
     azure_endpoint |-> config.api_base,
     api_key |-> config.api_key,
     api_version |-> config.model_version]

\* the cache test that never finds the connection
HasClient_Never(cl) == FALSE

HasClient(cl) == cl # NoClient

\* What one call of _get_client does, from memo c and cached client cl:
\* the connection it returns (conn), the error it raises (raised, with the
\* names it lists in missing), the nested resolution (load) and the number
\* of connections it constructed (made).
ClientOutcome(conn, raised, missing, load, made) ==
    [conn |-> conn, raised |-> raised, missing |-> missing, load |-> load, made |-> made]

GetClient(c, cl) ==
    IF HasClient(cl)
    THEN ClientOutcome(cl, None, <<>>, LoadOutcome(c, None, FALSE, 0, <<>>), 0)
    ELSE LET r == LoadConfigFromVault(c) IN
         IF r.raised # None
         THEN ClientOutcome(NoClient, r.raised, <<>>, r, 0)
         ELSE IF Missing(r.cfg) # <<>>
              THEN ClientOutcome(NoClient, "ConfigurationError", Missing(r.cfg), r, 0)
              ELSE ClientOutcome(AzureOpenAI(r.cfg, built + 1), None, <<>>, r, 1)

ClientAfter(cl, g) == IF g.raised = None THEN g.conn ELSE cl

----------------------------------------------------------------------------
(* What the caller of the last call saw *)

Report(op, raised, cause, missing, bundle, conn, loaded, opened, fetched, made, requests, model, remote, result) ==
    [op |-> op, raised |-> raised, cause |-> cause, missing |-> missing,
     bundle |-> bundle, conn |-> conn, loaded |-> loaded, opened |-> opened,
     fetched |-> fetched, made |-> made, requests |-> requests, model |-> model,
     remote |-> remote, result |-> result]

Quiet(op) ==
    Report(op, None, None, <<>>, NoConfig, NoClient, FALSE, 0, <<>>, 0, 0, None, None, NoResult)

----------------------------------------------------------------------------
(* generate_content *)

\* the handler that lets the caught error through unchanged
WrapFailure_Reraise(kind) == [raised |-> kind, cause |-> None]

\* except Exception as e: raise Exception(f"Content generation failed: {str(e)}")
WrapFailure(kind) == [raised |-> "GenerationError", cause |-> kind]

\* the create call repeated once after a failure
Attempts_Retry(remoteOk) == IF remoteOk THEN 1 ELSE 2

\* the number of client.chat.completions.create calls one generate_content
\* makes once it holds the connection
Attempts(remoteOk) == 1

\* the request sent with a fixed model name instead of the deployment
RequestModel_Fixed(config) == "gpt-3.5-turbo"

\* model=config["deployment"]
RequestModel(config) == config.deployment

\* the handler returning what it has instead of leaving through the raise
Returned_Partial(failure) == [content |-> IF failure = None THEN "generated" ELSE ""]

\* what generate_content returns: the result dict, and nothing when it raises
Returned(failure) == IF failure = None THEN [content |-> "generated"] ELSE NoResult

----------------------------------------------------------------------------
(* Actions *)

CorrectedEnv ==
    [env EXCEPT !["AZURE_OPENAI_API_KEY"] = "k",
                !["AZURE_OPENAI_ENDPOINT"] = "https://x",
                !["AZURE_OPENAI_API_VERSION"] = "2023-05-15",
                !["AZURE_OPENAI_DEPLOYMENT"] = "gpt-4"]

ClearedEnv ==
    [env EXCEPT !["AZURE_OPENAI_API_KEY"] = None,
                !["AZURE_OPENAI_ENDPOINT"] = None,
                !["AZURE_OPENAI_API_VERSION"] = None,
                !["AZURE_OPENAI_DEPLOYMENT"] = None]

RestoredSecrets ==
    [AzureLLMKey |-> "vault-key", AzureOpenAiBase |-> "https://vault-base",
     AzureOpenAiVersion |-> "2024-06-01", AzureOpenAiDeployment |-> "gpt-4o"]

LostSecrets ==
    [AzureLLMKey |-> FetchError, AzureOpenAiBase |-> FetchError,
     AzureOpenAiVersion |-> FetchError, AzureOpenAiDeployment |-> FetchError]

TypeOK ==
    /\ env \in EnvDomain
    /\ vaultUp \in BOOLEAN
    /\ secrets \in SecretDomain
    /\ sessions \in 0..MaxSessions
    /\ built \in 0..MaxBuilt

\* AzureOpenAIClient.__init__
NewInstance ==
    /\ key_vault_url' = PyOr(EnvGet("KEY_VAULT_URL"), DefaultKeyVaultUrl)
    /\ _config' = NoConfig
    /\ _client' = NoClient
    /\ sessions' = 0
    /\ fetches' = <<>>
    /\ built' = 0
    /\ last' = Quiet("construct")

\* The parts of the program that a specification leaves at rest
NobodyObtained == [t \in 1..NumTasks |-> [bundle |-> NoConfig, conn |-> NoClient]]

TasksAtRest == obtained = NobodyObtained

NoCall == [op |-> "none", id |-> 0, found |-> FALSE, rows |-> {}]

RepoAtRest == table = <<>> /\ next_id = 1 /\ repoLast = NoCall

NotCounted == [done |-> FALSE, raised |-> None, value |-> 0]

TokensAtRest == text = <<>> /\ tokenizer = [ok |-> TRUE, count |-> 0] /\ counted = NotCounted

\* The state after construction. While no session can be opened the content
\* of the vault cannot be observed, so it is taken to be LostSecrets.
InstanceInit ==
    /\ env \in EnvDomain
    /\ vaultUp \in BOOLEAN
    /\ secrets \in (IF vaultUp THEN SecretDomain ELSE {LostSecrets})
    /\ key_vault_url = PyOr(EnvGet("KEY_VAULT_URL"), DefaultKeyVaultUrl)
    /\ _config = NoConfig
    /\ _client = NoClient
    /\ sessions = 0
    /\ fetches = <<>>
    /\ built = 0
    /\ last = Quiet("construct")

Init == InstanceInit /\ TasksAtRest /\ RepoAtRest /\ TokensAtRest

\* a caller invokes _load_config_from_vault()
Resolve ==
    LET r == LoadConfigFromVault(_config) IN
    /\ sessions + r.opened <= MaxSessions
    /\ _config' = ConfigAfter(_config, r)
    /\ sessions' = sessions + r.opened
    /\ fetches' = fetches \o r.fetched
    /\ last' = Report("resolve", r.raised, None, <<>>,
                      IF r.raised = None THEN r.cfg ELSE NoConfig, NoClient,
                      r.loaded, r.opened, r.fetched, 0, 0, None, None, NoResult)
    /\ UNCHANGED <<env, vaultUp, secrets, key_vault_url, _client, built>>

\* a caller invokes _get_client()
GetConnection ==
    LET g == GetClient(_config, _client) IN
    /\ sessions + g.load.opened <= MaxSessions
    /\ built + g.made <= MaxBuilt
    /\ _config' = ConfigAfter(_config, g.load)
    /\ _client' = ClientAfter(_client, g)
    /\ sessions' = sessions + g.load.opened
    /\ fetches' = fetches \o g.load.fetched
    /\ built' = built + g.made
    /\ last' = Report("get_connection", g.raised, None, g.missing,
                      NoConfig, g.conn, g.load.loaded, g.load.opened,
                      g.load.fetched, g.made, 0, None, None, NoResult)
    /\ UNCHANGED <<env, vaultUp, secrets, key_vault_url>>

\* a caller awaits generate_content(prompt, context_sections); remoteOk is
\* the outcome of client.chat.completions.create
Generate(remoteOk) ==
    LET r  == LoadConfigFromVault(_config)
        c1 == ConfigAfter(_config, r)
        g  == IF r.raised = None
              THEN GetClient(c1, _client)
              ELSE ClientOutcome(NoClient, r.raised, <<>>,
                                 LoadOutcome(c1, None, FALSE, 0, <<>>), 0)
        c2 == ConfigAfter(c1, g.load)
        sent == g.raised = None
        failure == IF g.raised # None THEN g.raised
                   ELSE IF ~remoteOk THEN "RemoteError" ELSE None
        w == WrapFailure(failure)
    IN
    /\ sessions + r.opened + g.load.opened <= MaxSessions
    /\ built + g.made <= MaxBuilt
    /\ _config' = c2
    /\ _client' = ClientAfter(_client, g)
    /\ sessions' = sessions + r.opened + g.load.opened
    /\ fetches' = fetches \o r.fetched \o g.load.fetched
    /\ built' = built + g.made
    /\ last' = Report("generate",
                      IF failure = None THEN None ELSE w.raised,
                      IF failure = None THEN None ELSE w.cause,
                      g.missing, c2, g.conn,
                      r.loaded \/ g.load.loaded,
                      r.opened + g.load.opened,
                      r.fetched \o g.load.fetched,
                      g.made,
                      IF sent THEN Attempts(remoteOk) ELSE 0,
                      IF sent THEN RequestModel(r.cfg) ELSE None,
                      IF sent THEN (IF remoteOk THEN "ok" ELSE "failed") ELSE None,
                      Returned(failure))
    /\ UNCHANGED <<env, vaultUp, secrets, key_vault_url>>

\* The operator changes the settings while the process runs: the four
\* AZURE_OPENAI_* variables are all set or all cleared, and the vault is
\* restored with all four secrets or taken down.
ChangeSettings(e, up) ==
    /\ env' = e
    /\ vaultUp' = up
    /\ secrets' = IF up THEN RestoredSecrets ELSE LostSecrets
    /\ last' = Quiet("change")
    /\ UNCHANGED <<key_vault_url, _config, _client, sessions, fetches, built>>

Construct ==
    /\ NewInstance
    /\ UNCHANGED <<env, vaultUp, secrets>>

Next ==
    \/ Resolve /\ UNCHANGED <<taskVars, repoVars, tokenVars>>
    \/ GetConnection /\ UNCHANGED <<taskVars, repoVars, tokenVars>>
    \/ \E remoteOk \in BOOLEAN :
          Generate(remoteOk) /\ UNCHANGED <<taskVars, repoVars, tokenVars>>
    \/ \E e \in {CorrectedEnv, ClearedEnv}, up \in BOOLEAN :
          ChangeSettings(e, up) /\ UNCHANGED <<taskVars, repoVars, tokenVars>>
    \/ Construct /\ UNCHANGED <<taskVars, repoVars, tokenVars>>

Spec == Init /\ [][Next]_vars

----------------------------------------------------------------------------
(* Logical tasks sharing one instance.  No method of the class awaits:     *)
(* _load_config_from_vault and _get_client are plain functions and         *)
(* generate_content, though a coroutine, contains no await, so under the   *)
(* cooperative scheduler every call runs from entry to return without      *)
(* another task running in between.  An interleaving of tasks is therefore *)
(* an order of whole calls.                                                *)

Tasks == 1..NumTasks

\* what task t holds after its call: the bundle and the connection the call
\* handed to it, or what it held before when the call handed it none
Holding(t, bundle, conn) ==
    [obtained EXCEPT ![t] =
        [bundle |-> IF bundle # NoConfig THEN bundle ELSE @.bundle,
         conn   |-> IF conn # NoClient THEN conn ELSE @.conn]]

TaskResolve(t) ==
    /\ Resolve
    /\ obtained' = Holding(t, last'.bundle, NoClient)
    /\ UNCHANGED <<repoVars, tokenVars>>

TaskGetConnection(t) ==
    /\ GetConnection
    /\ obtained' = Holding(t, NoConfig, IF last'.raised = None THEN last'.conn ELSE NoClient)
    /\ UNCHANGED <<repoVars, tokenVars>>

TaskGenerate(t, remoteOk) ==
    /\ Generate(remoteOk)
    /\ obtained' = Holding(t, last'.bundle, last'.conn)
    /\ UNCHANGED <<repoVars, tokenVars>>

TaskSettingsChange(e, up) ==
    /\ ChangeSettings(e, up)
    /\ UNCHANGED <<taskVars, repoVars, tokenVars>>

\* the tasks are handed a new instance
TaskNewInstance ==
    /\ Construct
    /\ obtained' = NobodyObtained
    /\ UNCHANGED <<repoVars, tokenVars>>

\* the settings the tasks start from
TaskEnvs ==
    {e \in EnvDomain : /\ e["KEY_VAULT_URL"] = None
                       /\ e["AZURE_OPENAI_API_VERSION"] = None
                       /\ e["AZURE_OPENAI_API_KEY"] \in {None, "k"}
                       /\ e["AZURE_OPENAI_DEPLOYMENT"] \in {None, "gpt-4"}}

TaskSecrets ==
    {sec \in SecretDomain : /\ sec["AzureLLMKey"] # ""
                            /\ sec["AzureOpenAiVersion"] = FetchError
                            /\ sec["AzureOpenAiDeployment"] = "gpt-4o"}

InitTasks ==
    /\ InstanceInit
    /\ env \in TaskEnvs
    /\ vaultUp => secrets \in TaskSecrets
    /\ TasksAtRest /\ RepoAtRest /\ TokensAtRest

NextTasks ==
    \/ \E t \in Tasks : TaskResolve(t)
    \/ \E t \in Tasks : TaskGetConnection(t)
    \/ \E t \in Tasks, remoteOk \in BOOLEAN : TaskGenerate(t, remoteOk)
    \/ \E e \in {CorrectedEnv, ClearedEnv}, up \in BOOLEAN : TaskSettingsChange(e, up)
    \/ TaskNewInstance

SpecTasks == InitTasks /\ [][NextTasks]_vars

----------------------------------------------------------------------------
(* apps/server/src/database/repositories/capability_repository.py          *)
(* A row of the Capability table is [name, description, deleted_at]; the   *)
(* table is a function from the ids in use to rows.                        *)

Names == {"Strategy", "Finance"}
Descriptions == {"resource mobilization", "budgeting"}

Ids == 1..MaxCapabilities

\* what a repository call returned: the operation, the id it was given (or
\* gave), whether it returned a record (or True), and for fetch_all the ids
\* of the records returned
Called(op, id, found, rows) == [op |-> op, id |-> id, found |-> found, rows |-> rows]

\* Capability.filter(deleted_at=None)
Live == {i \in DOMAIN table : table[i].deleted_at = None}

\* the table without the row i
Without(i) == [j \in DOMAIN table \ {i} |-> table[j]]

\* the table with row i set to row
With(i, row) == [j \in DOMAIN table \cup {i} |-> IF j = i THEN row ELSE table[j]]

create_capability(name, description) ==
    /\ next_id <= MaxCapabilities
    /\ table' = With(next_id, [name |-> name, description |-> description,
                               deleted_at |-> None])
    /\ next_id' = next_id + 1
    /\ repoLast' = Called("create", next_id, TRUE, {})

fetch_all_capabilities ==
    /\ repoLast' = Called("fetch_all", 0, TRUE, Live)
    /\ UNCHANGED <<table, next_id>>

fetch_by_id(capability_id) ==
    /\ repoLast' = Called("fetch_by_id", capability_id, capability_id \in Live, {})
    /\ UNCHANGED <<table, next_id>>

\* name and description are None when the caller leaves them out
update_capability(capability_id, name, description) ==
    /\ IF capability_id \in Live
       THEN table' = With(capability_id,
                          [table[capability_id] EXCEPT
                             !.name = IF name # None THEN name ELSE @,
                             !.description = IF description # None THEN description ELSE @])
       ELSE table' = table
    /\ repoLast' = Called("update", capability_id, capability_id \in Live, {})
    /\ UNCHANGED next_id

\* Capability.filter(id=capability_id).delete(): the rows are removed
delete_capability(capability_id) ==
    /\ table' = IF capability_id \in DOMAIN table THEN Without(capability_id) ELSE table
    /\ repoLast' = Called("delete", capability_id, capability_id \in DOMAIN table, {})
    /\ UNCHANGED next_id

InitRepo ==
    /\ InstanceInit
    /\ env = [v \in DOMAIN env |-> None]
    /\ ~vaultUp
    /\ TasksAtRest /\ RepoAtRest /\ TokensAtRest

NextRepo ==
    \/ \E n \in Names, dsc \in Descriptions :
          create_capability(n, dsc) /\ UNCHANGED <<clientVars, taskVars, tokenVars>>
    \/ fetch_all_capabilities /\ UNCHANGED <<clientVars, taskVars, tokenVars>>
    \/ \E i \in Ids : fetch_by_id(i) /\ UNCHANGED <<clientVars, taskVars, tokenVars>>
    \/ \E i \in Ids, n \in Names \cup {None}, dsc \in Descriptions \cup {None} :
          update_capability(i, n, dsc) /\ UNCHANGED <<clientVars, taskVars, tokenVars>>
    \/ \E i \in Ids : delete_capability(i) /\ UNCHANGED <<clientVars, taskVars, tokenVars>>

SpecRepo == InitRepo /\ [][NextRepo]_vars

----------------------------------------------------------------------------
(* count_tokens.  A text is a sequence of characters.  What tiktoken does  *)
(* with it is an input of the call: it fails (encoding_for_model or        *)
(* encode raises), or it gives an encoding, whose number of tokens is at   *)
(* most the number of characters.                                          *)

Alphabet == {"a", "b"}

Texts == UNION {[1..n -> Alphabet] : n \in 0..MaxTextLen}

TokenizerFails == [ok |-> FALSE, count |-> 0]

TokenizerGives(n) == [ok |-> TRUE, count |-> n]

\* the estimate rounded up instead of down
Estimate_RoundedUp(t) == (Len(t) + 3) \div 4

\* "Fallback: rough estimation (1 token = 4 characters)": len(text) // 4
Estimate(t) == Len(t) \div 4

\* the value count_tokens returns
CountTokens(t, tok) == IF tok.ok THEN tok.count ELSE Estimate(t)

count_tokens ==
    /\ ~counted.done
    /\ counted' = [done |-> TRUE, raised |-> None, value |-> CountTokens(text, tokenizer)]
    /\ UNCHANGED <<text, tokenizer>>

InitTokens ==
    /\ InstanceInit
    /\ env = [v \in DOMAIN env |-> None]
    /\ ~vaultUp
    /\ TasksAtRest /\ RepoAtRest
    /\ text \in Texts
    /\ tokenizer \in {TokenizerFails} \cup {TokenizerGives(n) : n \in 0..Len(text)}
    /\ counted = NotCounted

NextTokens == count_tokens /\ UNCHANGED <<clientVars, taskVars, repoVars>>

SpecTokens == InitTokens /\ [][NextTokens]_vars

----------------------------------------------------------------------------
(* The properties *)

Fields == {"api_key", "api_base", "model_version", "deployment"}

EnvVarOf(f) ==
    CASE f = "api_key"       -> "AZURE_OPENAI_API_KEY"
      [] f = "api_base"      -> "AZURE_OPENAI_ENDPOINT"
      [] f = "model_version" -> "AZURE_OPENAI_API_VERSION"
      [] f = "deployment"    -> "AZURE_OPENAI_DEPLOYMENT"

SecretOf(f) ==
    CASE f = "api_key"       -> "AzureLLMKey"
      [] f = "api_base"      -> "AzureOpenAiBase"
      [] f = "model_version" -> "AzureOpenAiVersion"
      [] f = "deployment"    -> "AzureOpenAiDeployment"

\* the value a field takes from the environment: its variable, and for
\* api_version the literal default when the variable is unset
EnvValueOf(f) ==
    IF f = "model_version" /\ env["AZURE_OPENAI_API_VERSION"] = None
    THEN "2024-02-01"
    ELSE env[EnvVarOf(f)]

\* the last call was a resolve() that did the resolution (the settings are
\* still the ones it read: a change of settings is itself recorded in last)
FreshResolve == last.op = "resolve" /\ last.loaded

FailedFetches == {n \in DOMAIN secrets : secrets[n] = FetchError}

StoreUnreachable == ~vaultUp \/ FailedFetches = DOMAIN secrets

Absent(c) == {k \in {"api_key", "api_base", "deployment"} : c[k] = None \/ c[k] = ""}

\* C1: when the secret store is unreachable (the session cannot be opened, or
\* all four fetches fail), resolve() returns a bundle in which every field
\* equals its environment variable, api_version being "2024-02-01" when
\* AZURE_OPENAI_API_VERSION is unset.
C1_UnreachableStoreGivesEnv ==
    (FreshResolve /\ StoreUnreachable) =>
        /\ last.raised = None
        /\ _config = last.bundle
        /\ \A f \in Fields : last.bundle[f] = EnvValueOf(f)

C1_Witness ==
    /\ FreshResolve
    /\ ~vaultUp
    /\ last.opened = 1
    /\ env["AZURE_OPENAI_API_VERSION"] = None
    /\ last.bundle = [api_key |-> "k", api_base |-> "https://x",
                      model_version |-> "2024-02-01", deployment |-> "gpt-4"]

\* C2 as stated: when the session succeeds and exactly one fetch fails, every
\* field whose fetch succeeded holds the value the store returned, whatever
\* that value is, and the failed field holds its environment value.
C2_Original ==
    (FreshResolve /\ vaultUp /\ Cardinality(FailedFetches) = 1) =>
        \A f \in Fields :
            IF secrets[SecretOf(f)] = FetchError
            THEN last.bundle[f] = EnvValueOf(f)
            ELSE last.bundle[f] = secrets[SecretOf(f)]

\* C2 as amended: when the session succeeds and exactly one fetch fails, every
\* field whose fetch succeeded with a non-empty value holds that value; the
\* failed field, and any field whose stored value is empty, holds its
\* environment value.
C2_OneFailedFetch ==
    (FreshResolve /\ vaultUp /\ Cardinality(FailedFetches) = 1) =>
        \A f \in Fields :
            IF secrets[SecretOf(f)] \in {FetchError, ""}
            THEN last.bundle[f] = EnvValueOf(f)
            ELSE last.bundle[f] = secrets[SecretOf(f)]

C2_Witness ==
    /\ FreshResolve
    /\ vaultUp
    /\ FailedFetches = {"AzureOpenAiDeployment"}
    /\ secrets["AzureLLMKey"] = ""
    /\ env["AZURE_OPENAI_API_KEY"] = "k"
    /\ env["AZURE_OPENAI_ENDPOINT"] = "https://x"
    /\ last.bundle = [api_key |-> "k", api_base |-> "https://vault-base",
                      model_version |-> "2024-06-01", deployment |-> "gpt-4"]

\* C3: get_connection() raises the configuration error exactly when one of
\* api_key, api_base, deployment is absent from the resolved bundle; when all
\* three are present it returns the connection bound to the bundle.
C3_ConfigErrorIffAbsent ==
    (last.op = "get_connection") =>
        /\ _config # NoConfig
        /\ (last.raised = "ConfigurationError") <=> (Absent(_config) # {})
        /\ (Absent(_config) = {}) =>
              /\ last.raised = None
              /\ _client # NoClient
              /\ last.conn = _client
              /\ _client.azure_endpoint = _config.api_base
              /\ _client.api_key = _config.api_key
              /\ _client.api_version = _config.model_version

C3_Witness ==
    /\ last.op = "get_connection"
    /\ last.raised = "ConfigurationError"
    /\ _config.api_key = ""
    /\ _config.api_base = "https://vault-base"
    /\ _client = NoClient

\* C4: resolve() never raises: whatever the store and the environment hold, it
\* returns a bundle, which may be incomplete.
C4_ResolveNeverRaises ==
    (last.op = "resolve") =>
        /\ last.raised = None
        /\ last.bundle # NoConfig
        /\ DOMAIN last.bundle = Fields
        /\ _config = last.bundle

C4_Witness ==
    /\ FreshResolve
    /\ ~vaultUp
    /\ last.raised = None
    /\ Absent(last.bundle) = {"api_key", "api_base", "deployment"}

\* C5 as stated: when generate() cannot obtain the connection because a
\* required field is missing, its caller receives the configuration error.
C5_Original ==
    (last.op = "generate" /\ Absent(_config) # {}) =>
        last.raised = "ConfigurationError"

\* C5 as amended: when generate() cannot obtain the connection because a
\* required field is missing, its caller receives the generation error, the
\* same kind as for a failed remote call, made from the configuration error;
\* no request is sent.
C5_ConfigErrorIsWrapped ==
    (last.op = "generate" /\ Absent(_config) # {}) =>
        /\ last.raised = "GenerationError"
        /\ last.cause = "ConfigurationError"
        /\ {last.missing[i] : i \in DOMAIN last.missing} = Absent(_config)
        /\ last.requests = 0
        /\ last.result = NoResult

C5_Witness ==
    /\ last.op = "generate"
    /\ last.raised = "GenerationError"
    /\ last.cause = "ConfigurationError"
    /\ last.missing = <<"deployment">>

\* C6: when KEY_VAULT_URL is unset or empty, resolve() builds the bundle from
\* the environment alone, opening no session and fetching no secret.
C6_NoLocationMeansEnvOnly ==
    (FreshResolve /\ env["KEY_VAULT_URL"] \in {None, ""}) =>
        /\ last.opened = 0
        /\ last.fetched = <<>>
        /\ \A f \in Fields : last.bundle[f] = EnvValueOf(f)

\* C7: on one instance the secret-store session is constructed at most once.
C7_SessionAtMostOnce == sessions <= 1

C7_Witness ==
    /\ last.op = "generate"
    /\ sessions = 1
    /\ ~last.loaded
    /\ last.opened = 0
    /\ last.requests = 1

\* C8: once the bundle is memoized on an instance, every later call leaves it
\* unchanged, and a later resolve() returns it without opening a session or
\* fetching a secret, whatever the settings have become.
C8_BundleIsStable ==
    [][(_config # NoConfig /\ last'.op # "construct") =>
          /\ _config' = _config
          /\ (last'.op = "resolve") =>
                /\ last'.bundle = _config
                /\ last'.raised = None
                /\ last'.opened = 0
                /\ last'.fetched = <<>>]_vars

\* a resolve() answered from the memo although a resolution now would give
\* another bundle
C8_Witness ==
    /\ last.op = "resolve"
    /\ ~last.loaded
    /\ last.bundle = _config
    /\ LoadConfigFromVault(NoConfig).cfg # _config

\* C9: once the connection is constructed on an instance, every later
\* get_connection() and generate() uses that connection and none is built.
C9_ConnectionIsStable ==
    [][(_client # NoClient /\ last'.op # "construct") =>
          /\ _client' = _client
          /\ built' = built
          /\ (last'.op \in {"get_connection", "generate"}) => last'.conn = _client]_vars

\* a generate() served by the cached connection although the settings now
\* give another key
C9_Witness ==
    /\ last.op = "generate"
    /\ last.made = 0
    /\ last.conn = _client
    /\ built = 1
    /\ _client.api_key = "vault-key"
    /\ ~vaultUp
    /\ env["AZURE_OPENAI_API_KEY"] = "k"

\* C10: the configuration error of get_connection() names exactly the
\* required fields that are absent from the resolved bundle.
C10_ErrorNamesAbsentFields ==
    (last.op = "get_connection" /\ last.raised = "ConfigurationError") =>
        /\ {last.missing[i] : i \in DOMAIN last.missing} = Absent(_config)
        /\ Len(last.missing) = Cardinality(Absent(_config))

C10_Witness ==
    /\ last.op = "get_connection"
    /\ last.raised = "ConfigurationError"
    /\ ~vaultUp
    /\ env["AZURE_OPENAI_API_KEY"] = "k"
    /\ env["AZURE_OPENAI_ENDPOINT"] = "https://x"
    /\ env["AZURE_OPENAI_DEPLOYMENT"] = None
    /\ last.loaded
    /\ last.missing = <<"deployment">>

\* the last call was a generate() whose remote call failed
RemoteFailed == last.op = "generate" /\ last.remote = "failed"

\* C11: when the remote chat-completion call fails during generate(), it is
\* not retried, the caller receives the generation error made from the
\* original failure, and no result is returned.
C11_RemoteFailureSurfaces ==
    RemoteFailed =>
        /\ last.requests = 1
        /\ last.raised = "GenerationError"
        /\ last.cause = "RemoteError"
        /\ last.result = NoResult

C11_Witness ==
    /\ RemoteFailed
    /\ last.raised = "GenerationError"
    /\ last.cause = "RemoteError"
    /\ last.conn = _client
    /\ last.model = "gpt-4o"

\* C12 as stated: every generate() call issues exactly one outbound request.
C12_Original == (last.op = "generate") => last.requests = 1

\* C12 as amended: a generate() call issues exactly one outbound request when
\* it obtains the connection, whether the remote call then succeeds or fails,
\* and none when the configuration error stops it.
C12_OneRequestPerCall ==
    (last.op = "generate") =>
        /\ (Absent(_config) = {}) => last.requests = 1
        /\ (Absent(_config) # {}) => last.requests = 0

C12_Witness ==
    /\ last.op = "generate"
    /\ last.remote = "ok"
    /\ last.requests = 1
    /\ last.raised = None
    /\ last.result # NoResult

\* C19: a remote request is only sent once the bundle is memoized and
\* validated: no required field of the memoized bundle is absent, the
\* connection is the cached one, and the model of the request is the
\* deployment of the memoized bundle.
C19_RequestOnlyWhenValid ==
    (last.op = "generate" /\ last.requests > 0) =>
        /\ _config # NoConfig
        /\ Absent(_config) = {}
        /\ _client # NoClient
        /\ last.conn = _client
        /\ last.model = _config.deployment

C19_Witness ==
    /\ last.op = "generate"
    /\ last.requests = 1
    /\ last.loaded
    /\ last.made = 1
    /\ last.model = "gpt-4"
    /\ _config.deployment = "gpt-4"
    /\ _config.api_key = "vault-key"

\* C15: in every bundle returned by resolve(), api_version is non-empty: the
\* store's value, else the value of AZURE_OPENAI_API_VERSION, else
\* "2024-02-01", also when the variable is set to the empty string.
C15_ApiVersionNeverEmpty ==
    FreshResolve =>
        /\ last.bundle.model_version \notin {None, ""}
        /\ last.bundle.model_version =
              IF vaultUp /\ secrets["AzureOpenAiVersion"] \notin {FetchError, None, ""}
              THEN secrets["AzureOpenAiVersion"]
              ELSE IF env["AZURE_OPENAI_API_VERSION"] \notin {None, ""}
                   THEN env["AZURE_OPENAI_API_VERSION"]
                   ELSE "2024-02-01"

\* C17 as stated: when the session succeeds, whatever fetches fail, all four
\* secrets are fetched in the order key, base, version, deployment, and each
\* field is the store's value if its fetch succeeded, else its environment
\* value.
C17_Original ==
    (FreshResolve /\ vaultUp) =>
        /\ last.fetched = <<"AzureLLMKey", "AzureOpenAiBase",
                            "AzureOpenAiVersion", "AzureOpenAiDeployment">>
        /\ \A f \in Fields :
              IF secrets[SecretOf(f)] = FetchError
              THEN last.bundle[f] = EnvValueOf(f)
              ELSE last.bundle[f] = secrets[SecretOf(f)]

\* C17 as amended: when the session succeeds, whatever fetches fail, all four
\* secrets are fetched in the order key, base, version, deployment, in one
\* session, and each field is the store's value if its fetch succeeded with a
\* non-empty value, else its environment value.
C17_FetchesAreIsolated ==
    (FreshResolve /\ vaultUp) =>
        /\ last.opened = 1
        /\ last.raised = None
        /\ last.fetched = <<"AzureLLMKey", "AzureOpenAiBase",
                            "AzureOpenAiVersion", "AzureOpenAiDeployment">>
        /\ fetches = last.fetched
        /\ \A f \in Fields :
              IF secrets[SecretOf(f)] \in {FetchError, ""}
              THEN last.bundle[f] = EnvValueOf(f)
              ELSE last.bundle[f] = secrets[SecretOf(f)]

C17_Witness ==
    /\ FreshResolve
    /\ vaultUp
    /\ FailedFetches = {"AzureLLMKey", "AzureOpenAiVersion"}
    /\ Len(last.fetched) = 4
    /\ env["AZURE_OPENAI_DEPLOYMENT"] = "gpt-4"
    /\ last.bundle = [api_key |-> "k", api_base |-> "https://vault-base",
                      model_version |-> "2023-05-15", deployment |-> "gpt-4o"]

\* C18: a get_connection() that fails with the configuration error leaves the
\* connection cache empty and the incomplete bundle memoized, and from then on
\* every get_connection() and generate() on the instance fails with the same
\* missing fields and sends nothing, whatever the settings have become.
C18_FailureIsSticky ==
    [][/\ (last'.op = "get_connection" /\ last'.raised = "ConfigurationError") =>
             (_client' = NoClient /\ _config' # NoConfig /\ Absent(_config') # {})
       /\ (_config # NoConfig /\ Absent(_config) # {}
             /\ last'.op \in {"get_connection", "generate"}) =>
             /\ last'.raised \in {"ConfigurationError", "GenerationError"}
             /\ {last'.missing[i] : i \in DOMAIN last'.missing} = Absent(_config)
             /\ last'.requests = 0
             /\ _config' = _config
             /\ _client' = NoClient]_vars

\* a call that fails on the memoized bundle although a resolution now would
\* give a complete one
C18_Witness ==
    /\ last.op \in {"get_connection", "generate"}
    /\ last.raised # None
    /\ ~last.loaded
    /\ last.missing = <<"api_key", "api_base", "deployment">>
    /\ _client = NoClient
    /\ Absent(LoadConfigFromVault(NoConfig).cfg) = {}

\* C13: whatever the order in which logical tasks call resolve(),
\* get_connection() and generate() on one instance, all tasks hold the same
\* bundle and the same connection, which are the memoized ones.
C13_TasksAgree ==
    \A t \in 1..NumTasks, u \in 1..NumTasks :
        /\ (obtained[t].bundle # NoConfig /\ obtained[u].bundle # NoConfig)
              => obtained[t].bundle = obtained[u].bundle
        /\ (obtained[t].conn # NoClient /\ obtained[u].conn # NoClient)
              => obtained[t].conn = obtained[u].conn
        /\ obtained[t].bundle # NoConfig => obtained[t].bundle = _config
        /\ obtained[t].conn # NoClient => obtained[t].conn = _client

\* two tasks hold the same connection, the second one served after the
\* settings changed to ones that would give another bundle
C13_Witness ==
    /\ obtained[1].conn # NoClient
    /\ obtained[2].conn = obtained[1].conn
    /\ obtained[2].bundle = obtained[1].bundle
    /\ obtained[1].bundle # NoConfig
    /\ last.op = "generate"
    /\ ~last.loaded
    /\ LoadConfigFromVault(NoConfig).cfg # _config

\* C14: delete is a soft delete: after delete(id) of an existing record the
\* record is no longer fetched, but it is still in the table, with its
\* deletion marker set.
C14_DeleteIsSoft ==
    (repoLast.op = "delete" /\ repoLast.found) =>
        /\ repoLast.id \notin Live
        /\ repoLast.id \in DOMAIN table
        /\ table[repoLast.id].deleted_at # None

\* C16: count_tokens(text) returns the tokenizer's count when tokenization
\* succeeds and the floor of len(text)/4 when it fails, 0 for the empty
\* text; it never raises.
C16_CountOrEstimate ==
    counted.done =>
        /\ counted.raised = None
        /\ tokenizer.ok => counted.value = tokenizer.count
        /\ ~tokenizer.ok =>
              /\ 4 * counted.value <= Len(text)
              /\ Len(text) < 4 * counted.value + 4
        /\ (~tokenizer.ok /\ text = <<>>) => counted.value = 0

C16_Witness ==
    /\ counted.done
    /\ ~tokenizer.ok
    /\ Len(text) = 5
    /\ counted.value = 1

====
